---- MODULE Spec2Model ----
(***************************************************************************)
(* Model of app.py: the cached pipeline extract_audio_for_download, its    *)
(* two ffmpeg utilities, the temporary directory it works in and the       *)
(* st.cache_data memo wrapped around it, called by concurrent sessions.    *)
(***************************************************************************)
EXTENDS Naturals, Sequences, FiniteSets, TLC

\* ---------------------------------------------------------------- bounds
\* Calls of extract_audio_for_download made in one behaviour, over all sessions.
MaxCalls == 2

\* Script threads (Streamlit sessions) that may call the function concurrently.
Threads == {"s1", "s2"}

\* The requests a session may make: (video_bytes, original_filename,
\* output_format).  A filename is its path components; a leading "/" marks an
\* absolute name.  Two contents, both formats, and every shape of filename:
\* plain, equal to a fixed name of the pipeline, absolute, and leaving the
\* directory by ".." (the last two name the same file, /tmp/v.mp4).
Keys ==
  { <<"A", <<"v.mp4">>, "mp3">>,
    <<"A", <<"v.mp4">>, "wav">>,
    <<"A", <<"/", "tmp", "v.mp4">>, "wav">>,
    <<"B", <<"..", "v.mp4">>, "wav">>,
    <<"A", <<"temp_audio.wav">>, "wav">>,
    <<"A", <<"extracted_audio.mp3">>, "mp3">> }

\* Names tempfile may draw for the temporary directory.
WsNames == {"w1", "w2"}

\* mkdtemp: a name under which nothing exists yet.  The names are
\* interchangeable, so one free name stands for any of them.
FreshName(existing) == CHOOSE w \in WsNames \ existing : TRUE

\* ------------------------------------------------------------ file system
\* Directory that holds the temporary directories.
TmpRoot == <<"tmp">>

\* Directories that exist independently of any run.
StaticDirs == { <<>>, TmpRoot }

RECURSIVE Normalize(_, _)
\* Kernel path resolution of the components `rest` from the directory `acc`.
Normalize(acc, rest) ==
  IF rest = <<>> THEN acc
  ELSE IF Head(rest) = ".."
       THEN Normalize(IF acc = <<>> THEN acc ELSE SubSeq(acc, 1, Len(acc) - 1),
                      Tail(rest))
       ELSE Normalize(Append(acc, Head(rest)), Tail(rest))

\* os.path.join(temp_dir, name): an absolute second argument discards the first.
JoinPath(dir, name) ==
  IF Head(name) = "/" THEN Normalize(<<>>, Tail(name))
  ELSE Normalize(dir, name)

ParentDir(p) == SubSeq(p, 1, Len(p) - 1)

IsUnder(p, dir) == Len(p) > Len(dir) /\ SubSeq(p, 1, Len(dir)) = dir

\* Directory of the workspace named w.
WsDir(w) == Append(TmpRoot, w)

NoFile == [kind |-> "none", data |-> "none", by |-> 0, origin |-> 0]

\* ------------------------------------------------------------------ values
NoBytes == NoFile
RetBytes(c) == [tag |-> "bytes", val |-> c]
RetNone     == [tag |-> "none", val |-> NoBytes]
Raised      == [tag |-> "raise", val |-> NoBytes]
Pending     == [tag |-> "pending", val |-> NoBytes]

NoKey == <<"none", <<>>, "none">>


\* ------------------------------------------------------------------- state
VARIABLES
  toolkitPresent, \* whether "ffmpeg" resolves on PATH
  pc,             \* per session: where its call stands
  call,           \* per session: the locals of its current or last call
  dirs,           \* names of the temporary directories that exist
  files,          \* path -> content of every regular file
  cache,          \* st.cache_data: value key -> stored return value and messages
  locks,          \* value keys whose compute lock is held
  ncalls,         \* calls made so far
  okResult,       \* history: key -> bytes of its first successful call
  failedKeys      \* history: keys with a completed failed call

vars == <<toolkitPresent, pc, call, dirs, files, cache, locks, ncalls,
          okResult, failedKeys>>

\* States of one call.  "Idle": no call in progress; "AwaitLock": cache miss,
\* waiting for the key's compute lock; "Compute": function body entered.
RunStates == {"WorkspaceAcquired", "SourcePersisted", "ExtractedIntermediate",
              "Finalized", "Encoded", "ArtifactRead"}

NewCall(k, id) ==
  [key |-> k, id |-> id, hit |-> FALSE, trace |-> <<>>, msg |-> "none",
   ws |-> "none", final |-> <<>>, audio |-> NoBytes, ret |-> Pending,
   fail |-> "none",
   priorOk |-> IF k \in DOMAIN okResult THEN okResult[k] ELSE NoBytes,
   priorFail |-> k \in failedKeys]

Dirs == StaticDirs \cup {WsDir(w) : w \in dirs}

WriteFile(fs, p, c) ==
  [q \in DOMAIN fs \cup {p} |-> IF q = p THEN c ELSE fs[q]]

\* ------------------------------------------------------- st.cache_data memo
\* The value key hashes every argument of the call.
MakeValueKey(b, name, fmt) == <<b, name, fmt>>

ValueKey(c) == MakeValueKey(c.key[1], c.key[2], c.key[3])

\* A memo whose write is lost.
CacheWriteLost(c, k, ret, msg) == c

\* write_result after the function returned; a raised exception stores nothing.
CacheWrite(c, k, ret, msg) ==
  IF ret.tag = "raise" THEN c
  ELSE [q \in DOMAIN c \cup {k} |->
          IF q = k THEN [val |-> ret, msg |-> msg] ELSE c[q]]

\* History of completed calls.
NoteOk(k, ret) ==
  IF ret.tag = "bytes" /\ k \notin DOMAIN okResult
  THEN [q \in DOMAIN okResult \cup {k} |-> IF q = k THEN ret.val ELSE okResult[q]]
  ELSE okResult

NoteFail(k, ret) ==
  IF ret.tag = "bytes" THEN failedKeys ELSE failedKeys \cup {k}

\* The locals of a call are gone once it has returned; what the caller saw of
\* it stays (ws records only whether a temporary directory was made).
Finished(c) ==
  [c EXCEPT !.id = 0, !.final = <<>>, !.audio = NoBytes,
            !.ws = IF c.ws = "none" THEN "none" ELSE "removed"]

\* A cache hit returns the stored value and replays the stored messages.
ServeHit(t, c) ==
  /\ call' = [call EXCEPT ![t] = Finished([c EXCEPT !.hit = TRUE,
                                           !.ret = cache[ValueKey(c)].val,
                                           !.msg = cache[ValueKey(c)].msg])]
  /\ pc' = [pc EXCEPT ![t] = "Idle"]
  /\ okResult' = NoteOk(c.key, cache[ValueKey(c)].val)
  /\ failedKeys' = NoteFail(c.key, cache[ValueKey(c)].val)

\* ---------------------------------------------------------------- Init
Init ==
  /\ toolkitPresent \in BOOLEAN
  /\ pc = [t \in Threads |-> "Idle"]
  /\ okResult = <<>>
  /\ failedKeys = {}
  /\ call = [t \in Threads |->
               [key |-> NoKey, id |-> 0, hit |-> FALSE, trace |-> <<>>,
                msg |-> "none", ws |-> "none", final |-> <<>>, audio |-> NoBytes,
                ret |-> Pending, fail |-> "none", priorOk |-> NoBytes, priorFail |-> FALSE]]
  /\ dirs = {}
  /\ files = <<>>
  /\ cache = <<>>
  /\ locks = {}
  /\ ncalls = 0

\* ------------------------------------------------- the cached function call
\* main's call of the decorated function: the first cache read.
Call(t, k) ==
  /\ pc[t] = "Idle"
  /\ ncalls < MaxCalls
  /\ ncalls' = ncalls + 1
  /\ LET c == NewCall(k, ncalls + 1) IN
       IF ValueKey(c) \in DOMAIN cache
       THEN ServeHit(t, c)
       ELSE /\ call' = [call EXCEPT ![t] = c]
            /\ pc' = [pc EXCEPT ![t] = "AwaitLock"]
            /\ UNCHANGED <<okResult, failedKeys>>
  /\ UNCHANGED <<toolkitPresent, dirs, files, cache, locks>>

\* The miss path takes the key's compute lock and reads the cache again.
AcquireLock(t) ==
  /\ pc[t] = "AwaitLock"
  /\ ValueKey(call[t]) \notin locks
  /\ IF ValueKey(call[t]) \in DOMAIN cache
     THEN /\ ServeHit(t, call[t])
          /\ UNCHANGED locks
     ELSE /\ locks' = locks \cup {ValueKey(call[t])}
          /\ pc' = [pc EXCEPT ![t] = "Compute"]
          /\ UNCHANGED <<call, okResult, failedKeys>>
  /\ UNCHANGED <<toolkitPresent, dirs, files, cache, ncalls>>

\* The function returned or raised: store a returned value, release the lock.
Return(t) ==
  /\ pc[t] = "Released"
  /\ cache' = CacheWrite(cache, ValueKey(call[t]), call[t].ret, call[t].msg)
  /\ locks' = locks \ {ValueKey(call[t])}
  /\ pc' = [pc EXCEPT ![t] = "Idle"]
  /\ okResult' = NoteOk(call[t].key, call[t].ret)
  /\ failedKeys' = NoteFail(call[t].key, call[t].ret)
  /\ call' = [call EXCEPT ![t] = Finished(call[t])]
  /\ UNCHANGED <<toolkitPresent, dirs, files, ncalls>>

\* ------------------------------------------------------------ the toolkit
\* subprocess.run(["ffmpeg", "-y", "-i", inP, ..., outP], check=True): the
\* executable may be missing; ffmpeg refuses an output that is its input and
\* an input that does not exist; otherwise it exits zero or nonzero.
SubprocessRun(inP, outP) ==
  IF ~toolkitPresent THEN {"FileNotFoundError"}
  ELSE IF inP = outP \/ inP \notin DOMAIN files THEN {"CalledProcessError"}
  ELSE {"ok", "CalledProcessError"}

\* What ffmpeg writes from the input content `c` in the run `id`.
Transcoded(kind, c, id) ==
  [kind |-> kind, data |-> c.data, by |-> id, origin |-> c.origin]

\* Fixed names inside the temporary directory.
TempAudioWav(w) == JoinPath(WsDir(w), <<"temp_audio.wav">>)

FinalAudioPath(w, fmt) ==
  JoinPath(WsDir(w), << IF fmt = "mp3" THEN "extracted_audio.mp3"
                        ELSE "extracted_audio.wav" >>)

TempVideoPath(w, name) == JoinPath(WsDir(w), name)

\* -------------------------------------------------------- the function body
\* A cleanup that removes the directory entry and leaves the files.
CleanupLeavesFiles(fs, w) == fs

\* TemporaryDirectory.__exit__: the directory and all below it are removed.
Cleanup(fs, w) ==
  [q \in {p \in DOMAIN fs : ~IsUnder(p, WsDir(w))} |-> fs[q]]

\* A handler that lets the exception through.
ExceptHandlerReraises(exc) == Raised

\* except Exception: return None
ExceptHandler(exc) == RetNone

\* The body is left with `ret`; the with-statement cleans up on the way out.
Exit(t, ret, fail, msg, trace) ==
  /\ call' = [call EXCEPT ![t].ret = ret, ![t].fail = fail, ![t].msg = msg,
                          ![t].trace = trace]
  /\ dirs' = dirs \ {call[t].ws}
  /\ files' = Cleanup(files, call[t].ws)
  /\ pc' = [pc EXCEPT ![t] = "Released"]

\* with tempfile.TemporaryDirectory() as temp_dir, and the three paths.
MakeWorkspace(t) ==
  /\ pc[t] = "Compute"
  /\ \E io \in {"ok", "OSError"} :
       IF io = "ok"
       THEN \E w \in {FreshName(dirs)} :
              /\ dirs' = dirs \cup {w}
              /\ call' = [call EXCEPT ![t].ws = w,
                            ![t].final = FinalAudioPath(w, call[t].key[3])]
              /\ pc' = [pc EXCEPT ![t] = "WorkspaceAcquired"]
       ELSE /\ call' = [call EXCEPT ![t].ret = Raised, ![t].fail = "mkdtemp"]
            /\ pc' = [pc EXCEPT ![t] = "Released"]
            /\ UNCHANGED dirs
  /\ UNCHANGED <<toolkitPresent, files, cache, locks, ncalls, okResult, failedKeys>>

\* open(temp_video_path, "wb") and write, outside the try block.
WriteSource(t) ==
  /\ pc[t] = "WorkspaceAcquired"
  /\ LET p == TempVideoPath(call[t].ws, call[t].key[2]) IN
     \E io \in {"ok", "OSError"} :
       IF io = "ok" /\ ParentDir(p) \in Dirs
       THEN /\ files' = WriteFile(files, p,
                          [kind |-> "src", data |-> call[t].key[1],
                           by |-> call[t].id, origin |-> call[t].id])
            /\ pc' = [pc EXCEPT ![t] = "SourcePersisted"]
            /\ UNCHANGED <<call, dirs>>
       ELSE Exit(t, Raised, "write", "none", call[t].trace)
  /\ UNCHANGED <<toolkitPresent, cache, locks, ncalls, okResult, failedKeys>>

\* An extraction that is tried again whenever ffmpeg exits nonzero.
ExtractAudioRetries(t) ==
  /\ pc[t] = "SourcePersisted"
  /\ LET vp == TempVideoPath(call[t].ws, call[t].key[2])
         wp == TempAudioWav(call[t].ws)
         tr == Append(call[t].trace, "extract")
     IN \E r \in SubprocessRun(vp, wp) :
          CASE r = "ok" ->
                 /\ files' = WriteFile(files, wp,
                               Transcoded("wav", files[vp], call[t].id))
                 /\ call' = [call EXCEPT ![t].trace = tr]
                 /\ pc' = [pc EXCEPT ![t] = "ExtractedIntermediate"]
                 /\ UNCHANGED dirs
            [] r = "CalledProcessError" ->
                 UNCHANGED <<call, dirs, files, pc>>
            [] r = "FileNotFoundError" ->
                 Exit(t, ExceptHandler(r), "toolkit_missing", "ffmpeg_not_found", tr)
  /\ UNCHANGED <<toolkitPresent, cache, locks, ncalls, okResult, failedKeys>>

\* An extraction that logs the missing executable and does not raise.
ExtractAudioSwallowsNotFound(t) ==
  /\ pc[t] = "SourcePersisted"
  /\ LET vp == TempVideoPath(call[t].ws, call[t].key[2])
         wp == TempAudioWav(call[t].ws)
         tr == Append(call[t].trace, "extract")
     IN \E r \in SubprocessRun(vp, wp) :
          CASE r = "ok" ->
                 /\ files' = WriteFile(files, wp,
                               Transcoded("wav", files[vp], call[t].id))
                 /\ call' = [call EXCEPT ![t].trace = tr]
                 /\ pc' = [pc EXCEPT ![t] = "ExtractedIntermediate"]
                 /\ UNCHANGED dirs
            [] r = "CalledProcessError" ->
                 Exit(t, ExceptHandler(r), "extract", "extraction_failed", tr)
            [] r = "FileNotFoundError" ->
                 /\ call' = [call EXCEPT ![t].trace = tr,
                                         ![t].msg = "ffmpeg_not_found"]
                 /\ pc' = [pc EXCEPT ![t] = "ExtractedIntermediate"]
                 /\ UNCHANGED <<dirs, files>>
  /\ UNCHANGED <<toolkitPresent, cache, locks, ncalls, okResult, failedKeys>>

\* extract_audio_ffmpeg(temp_video_path, temp_audio_wav)
ExtractAudio(t) ==
  /\ pc[t] = "SourcePersisted"
  /\ LET vp == TempVideoPath(call[t].ws, call[t].key[2])
         wp == TempAudioWav(call[t].ws)
         tr == Append(call[t].trace, "extract")
     IN \E r \in SubprocessRun(vp, wp) :
          CASE r = "ok" ->
                 /\ files' = WriteFile(files, wp,
                               Transcoded("wav", files[vp], call[t].id))
                 /\ call' = [call EXCEPT ![t].trace = tr]
                 /\ pc' = [pc EXCEPT ![t] = "ExtractedIntermediate"]
                 /\ UNCHANGED dirs
            [] r = "CalledProcessError" ->
                 Exit(t, ExceptHandler(r), "extract", "extraction_failed", tr)
            [] r = "FileNotFoundError" ->
                 Exit(t, ExceptHandler(r), "toolkit_missing", "ffmpeg_not_found", tr)
  /\ UNCHANGED <<toolkitPresent, cache, locks, ncalls, okResult, failedKeys>>

\* A conversion that is run whatever the requested format.
ConvertToMp3Always(t) ==
  /\ pc[t] = "ExtractedIntermediate"
  /\ LET wp == TempAudioWav(call[t].ws)
         tr == Append(call[t].trace, "encode")
     IN \E r \in SubprocessRun(wp, call[t].final) :
          CASE r = "ok" ->
                 /\ files' = WriteFile(files, call[t].final,
                               Transcoded("mp3", files[wp], call[t].id))
                 /\ call' = [call EXCEPT ![t].trace = tr]
                 /\ pc' = [pc EXCEPT ![t] = "Encoded"]
                 /\ UNCHANGED dirs
            [] r = "CalledProcessError" ->
                 Exit(t, ExceptHandler(r), "encode", "mp3_failed", tr)
            [] r = "FileNotFoundError" ->
                 Exit(t, ExceptHandler(r), "toolkit_missing", "none", tr)
  /\ UNCHANGED <<toolkitPresent, cache, locks, ncalls, okResult, failedKeys>>

\* output_format == "mp3": convert_to_mp3_ffmpeg(temp_audio_wav, final_audio_path)
ConvertToMp3(t) ==
  /\ pc[t] = "ExtractedIntermediate"
  /\ call[t].key[3] = "mp3"
  /\ LET wp == TempAudioWav(call[t].ws)
         tr == Append(call[t].trace, "encode")
     IN \E r \in SubprocessRun(wp, call[t].final) :
          CASE r = "ok" ->
                 /\ files' = WriteFile(files, call[t].final,
                               Transcoded("mp3", files[wp], call[t].id))
                 /\ call' = [call EXCEPT ![t].trace = tr]
                 /\ pc' = [pc EXCEPT ![t] = "Encoded"]
                 /\ UNCHANGED dirs
            [] r = "CalledProcessError" ->
                 Exit(t, ExceptHandler(r), "encode", "mp3_failed", tr)
            [] r = "FileNotFoundError" ->
                 Exit(t, ExceptHandler(r), "toolkit_missing", "none", tr)
  /\ UNCHANGED <<toolkitPresent, cache, locks, ncalls, okResult, failedKeys>>

\* else: final_audio_path = temp_audio_wav
UseWav(t) ==
  /\ pc[t] = "ExtractedIntermediate"
  /\ call[t].key[3] # "mp3"
  /\ call' = [call EXCEPT ![t].final = TempAudioWav(call[t].ws)]
  /\ pc' = [pc EXCEPT ![t] = "Finalized"]
  /\ UNCHANGED <<toolkitPresent, dirs, files, cache, locks, ncalls, okResult,
                 failedKeys>>

\* A read that always opens the intermediate WAV.
ReadArtifactReadsWav(t) ==
  /\ pc[t] \in {"Finalized", "Encoded"}
  /\ \E io \in {"ok", "OSError"} :
       IF io = "ok" /\ TempAudioWav(call[t].ws) \in DOMAIN files
       THEN /\ call' = [call EXCEPT ![t].audio = files[TempAudioWav(call[t].ws)]]
            /\ pc' = [pc EXCEPT ![t] = "ArtifactRead"]
            /\ UNCHANGED <<dirs, files>>
       ELSE Exit(t, ExceptHandler(io), "read", "none", call[t].trace)
  /\ UNCHANGED <<toolkitPresent, cache, locks, ncalls, okResult, failedKeys>>

\* open(final_audio_path, "rb") and read, inside the try block.
ReadArtifact(t) ==
  /\ pc[t] \in {"Finalized", "Encoded"}
  /\ \E io \in {"ok", "OSError"} :
       IF io = "ok" /\ call[t].final \in DOMAIN files
       THEN /\ call' = [call EXCEPT ![t].audio = files[call[t].final]]
            /\ pc' = [pc EXCEPT ![t] = "ArtifactRead"]
            /\ UNCHANGED <<dirs, files>>
       ELSE Exit(t, ExceptHandler(io), "read", "none", call[t].trace)
  /\ UNCHANGED <<toolkitPresent, cache, locks, ncalls, okResult, failedKeys>>

\* return audio_bytes, leaving the with-statement.
ReturnBytes(t) ==
  /\ pc[t] = "ArtifactRead"
  /\ Exit(t, RetBytes(call[t].audio), "none", "none", call[t].trace)
  /\ UNCHANGED <<toolkitPresent, cache, locks, ncalls, okResult, failedKeys>>

\* ------------------------------------------------------------------- Next
Step(t) ==
  \/ AcquireLock(t)
  \/ MakeWorkspace(t)
  \/ WriteSource(t)
  \/ ExtractAudio(t)
  \/ ConvertToMp3(t)
  \/ UseWav(t)
  \/ ReadArtifact(t)
  \/ ReturnBytes(t)
  \/ Return(t)

Next ==
  \E t \in Threads :
    \/ \E k \in Keys : Call(t, k)
    \/ Step(t)

Spec == Init /\ [][Next]_vars

\* Every started call is run to completion by its thread.
FairSpec == Spec /\ \A t \in Threads : WF_vars(Step(t))

\* ================================================================ claims
\* A call whose function body has been entered and has not yet returned to
\* the memo.
Running == {"Compute", "Released"} \cup RunStates

\* The step on which the function body of session t is left.
Leaves(t) == pc[t] # "Released" /\ pc'[t] = "Released"

\* The temporary directory of the call record c and all below it are gone
\* from the directories ds and the files fs.
WsGone(c, ds, fs) ==
  /\ c.ws \notin ds
  /\ \A p \in DOMAIN fs : ~IsUnder(p, WsDir(c.ws))

\* Session t has completed a call.
Completed(t) == pc[t] = "Idle" /\ call[t].key # NoKey

\* C1: on every step that leaves the function body, by return or by raise,
\* the call's temporary directory and every file below it no longer exist.
C1_WorkspaceGoneOnExit ==
  [][\A t \in Threads : Leaves(t) => WsGone(call'[t], dirs', files')]_vars

\* C1 witness: a body was left by the failure of the encoding, after the
\* source copy and the intermediate WAV had been written to its directory.
C1_Witness ==
  \E t \in Threads :
    pc[t] = "Released" /\ call[t].fail = "encode" /\ call[t].ws \in WsNames

\* The successors of each state of a run on its success path.
Successors(st) ==
  CASE st = "WorkspaceAcquired"     -> {"SourcePersisted"}
    [] st = "SourcePersisted"       -> {"ExtractedIntermediate"}
    [] st = "ExtractedIntermediate" -> {"Finalized", "Encoded"}
    [] st = "Finalized"             -> {"ArtifactRead"}
    [] st = "Encoded"               -> {"ArtifactRead"}
    [] st = "ArtifactRead"          -> {"Released"}

\* C2: a run in any of its states moves only to the next state or to
\* Released, and every run reaches Released.
C2_ReleasedAlwaysReached ==
  /\ [][\A t \in Threads :
          (pc[t] \in RunStates /\ pc'[t] # pc[t])
            => pc'[t] \in Successors(pc[t]) \cup {"Released"}]_vars
  /\ \A t \in Threads : (pc[t] \in RunStates) ~> (pc[t] = "Released")

\* C2 witness: a run took the failure edge from Finalized or Encoded.
C2_Witness ==
  \E t \in Threads : pc[t] = "Released" /\ call[t].fail = "read"

\* C3: a failure of the source write, the extraction, the encoding or the
\* read of the final artifact makes the call return the failure value None,
\* with the temporary directory removed.
C3_FailureReturnsNone ==
  [][\A t \in Threads :
       (Leaves(t) /\ call'[t].fail \in {"write", "toolkit_missing", "extract",
                                        "encode", "read"})
         => /\ call'[t].ret = RetNone
            /\ WsGone(call'[t], dirs', files')]_vars

\* C4: a call made after a failed call with the same arguments, and no
\* successful one, is not served the stored failure.
C4_FailureNotServedFromCache ==
  \A t \in Threads :
    (Completed(t) /\ call[t].priorFail /\ call[t].priorOk = NoBytes)
      => ~(call[t].hit /\ call[t].ret.tag # "bytes")

\* The failure class of the error taxonomy that an origin belongs to.
FailureClass(f) ==
  CASE f = "toolkit_missing" -> "ToolkitUnavailable"
    [] f = "extract"         -> "ExtractionFailed"
    [] f = "encode"          -> "EncodingFailed"
    [] f \in {"mkdtemp", "write", "read"} -> "IOFailure"
    [] OTHER                 -> "none"

\* The function body of session t's current or last call failed.
HasFailed(t) == pc[t] \in {"Released", "Idle"} /\ call[t].fail # "none"

C6_SingleComputationPerKey ==
  \A t \in Threads :
    pc[t] \in Running =>
      /\ call[t].key \in failedKeys => call[t].priorFail
      /\ call[t].key \in DOMAIN okResult => call[t].priorOk # NoBytes

\* C7: a call made after a successful call with the same arguments returns
\* that call's bytes from the memo: the body is not entered, no toolkit is
\* invoked and no temporary directory is made.
C7_RepeatServedFromCache ==
  \A t \in Threads :
    call[t].priorOk # NoBytes =>
      /\ pc[t] = "Idle"
      /\ call[t].hit
      /\ call[t].ret = RetBytes(call[t].priorOk)
      /\ call[t].trace = <<>>
      /\ call[t].ws = "none"

\* C7 witness: a call repeating a successful one has completed.
C7_Witness ==
  \E t \in Threads : Completed(t) /\ call[t].priorOk # NoBytes

\* C8 as stated: runs that hold a temporary directory at the same time hold
\* different ones, and the bytes a run returns were written by that run from
\* the source that run wrote.
C8_RunsIsolated ==
  /\ \A t1, t2 \in Threads :
       (t1 # t2 /\ pc[t1] \in RunStates /\ pc[t2] \in RunStates)
         => call[t1].ws # call[t2].ws
  /\ \A t \in Threads :
       (pc[t] = "Released" /\ call[t].ret.tag = "bytes")
         => /\ call[t].ret.val.by = call[t].id
            /\ call[t].ret.val.origin = call[t].id
            /\ call[t].ret.val.data = call[t].key[1]

\* A file written by the toolkit exists.
ToolkitOutputExists ==
  \E p \in DOMAIN files : files[p].kind \in {"wav", "mp3"}

\* C9 as stated: with the executable missing every call ends as
\* ToolkitUnavailable, the encoder is never invoked and no WAV or final
\* artifact is written.
C9_MissingToolkitAlwaysUnavailable ==
  ~toolkitPresent =>
    /\ \A t \in Threads :
         /\ pc[t] = "Released"
              => call[t].fail = "toolkit_missing" /\ call[t].ret = RetNone
         /\ \A i \in DOMAIN call[t].trace : call[t].trace[i] # "encode"
    /\ ~ToolkitOutputExists

\* C9 amended: with the executable missing a call returns None with the
\* message of the missing executable, unless making the directory or writing
\* the source failed first and raised; no call returns bytes, the encoder is
\* never invoked and no WAV or final artifact is written.
C9_MissingToolkitNoOutput ==
  ~toolkitPresent =>
    /\ \A t \in Threads :
         /\ pc[t] = "Released" =>
              \/ /\ call[t].fail = "toolkit_missing"
                 /\ call[t].ret = RetNone
                 /\ call[t].msg = "ffmpeg_not_found"
              \/ /\ call[t].fail \in {"mkdtemp", "write"}
                 /\ call[t].ret = Raised
         /\ call[t].ret.tag # "bytes"
         /\ pc[t] \notin {"ExtractedIntermediate", "Finalized", "Encoded",
                          "ArtifactRead"}
         /\ \A i \in DOMAIN call[t].trace : call[t].trace[i] # "encode"
    /\ ~ToolkitOutputExists

\* C9 witness: the extraction found the executable missing.
C9_Witness ==
  /\ ~toolkitPresent
  /\ \E t \in Threads : pc[t] = "Released" /\ call[t].fail = "toolkit_missing"

\* C10 as stated: a call is served from the memo only after a successful
\* call with the same three arguments, whose bytes it returns.
C10_HitOnlyAfterSuccessOnSameTriple ==
  \A t \in Threads :
    (Completed(t) /\ call[t].hit)
      => /\ call[t].key \in DOMAIN okResult
         /\ call[t].ret = RetBytes(okResult[call[t].key])

\* C11: in one run the extractor is invoked once and only after the source
\* was written, the encoder at most once, only for mp3 and only after the
\* extractor succeeded, and nothing is invoked a second time.
C11_ToolkitOrderNoRetry ==
  \A t \in Threads :
    LET tr == call[t].trace IN
      /\ tr \in {<<>>, <<"extract">>, <<"extract", "encode">>}
      /\ tr # <<>> =>
           /\ pc[t] \notin {"AwaitLock", "Compute", "WorkspaceAcquired",
                            "SourcePersisted"}
           /\ call[t].fail \notin {"mkdtemp", "write"}
      /\ pc[t] \in {"ExtractedIntermediate", "Finalized"} => tr = <<"extract">>
      /\ pc[t] = "Encoded" => tr = <<"extract", "encode">>
      /\ (pc[t] = "Released" /\ call[t].fail \notin {"mkdtemp", "write"})
           => tr # <<>>
      /\ Len(tr) = 2 =>
           /\ call[t].key[3] = "mp3"
           /\ call[t].fail \in {"none", "encode", "read"}
      /\ (call[t].key[3] # "mp3") => Len(tr) <= 1

\* C11 witness: a run invoked the extractor and then the encoder and
\* returned bytes.
C11_Witness ==
  \E t \in Threads :
    /\ pc[t] = "Released"
    /\ call[t].trace = <<"extract", "encode">>
    /\ call[t].ret.tag = "bytes"

\* The file that holds the result of session t's run: the encoder's output
\* for mp3, the extractor's WAV otherwise.
ArtifactOf(t) ==
  IF call[t].key[3] = "mp3" THEN FinalAudioPath(call[t].ws, "mp3")
  ELSE TempAudioWav(call[t].ws)

\* The kind of content the toolkit step that made the final artifact writes.
ArtifactKind(t) == IF call[t].key[3] = "mp3" THEN "mp3" ELSE "wav"

\* C12: the bytes read are the whole content of the run's final artifact,
\* taken while the temporary directory still exists: the encoder's output
\* for mp3, the extractor's WAV for wav; a successful run returns them.
C12_ReturnsFinalArtifact ==
  \A t \in Threads :
    /\ pc[t] = "ArtifactRead" =>
         /\ call[t].ws \in dirs
         /\ ArtifactOf(t) \in DOMAIN files
         /\ call[t].audio = files[ArtifactOf(t)]
         /\ call[t].audio.kind = ArtifactKind(t)
         /\ call[t].audio.by = call[t].id
    /\ (pc[t] = "Released" /\ call[t].ret.tag = "bytes") =>
         /\ call[t].ret = RetBytes(call[t].audio)
         /\ call[t].audio.kind = ArtifactKind(t)
         /\ call[t].audio.by = call[t].id

\* C12 witness: an mp3 run returned the content the encoder wrote.
C12_Witness ==
  \E t \in Threads :
    /\ pc[t] = "Released"
    /\ call[t].key[3] = "mp3"
    /\ call[t].ret.tag = "bytes"
    /\ call[t].ret.val.kind = "mp3"

\* C13 as stated: in every run the file that holds the source copy is
\* neither the intermediate WAV nor the final artifact, so no toolkit
\* invocation has its input as its output.
C13_SourceDistinctFromOutputs ==
  \A t \in Threads :
    pc[t] \in RunStates =>
      LET vp == TempVideoPath(call[t].ws, call[t].key[2]) IN
        /\ vp # TempAudioWav(call[t].ws)
        /\ vp # ArtifactOf(t)

\* C14 as stated: every file that exists was written by a run in progress
\* and lies inside that run's temporary directory, so nothing a run wrote
\* outlives the removal of its directory.
C14_WritesStayInWorkspace ==
  \A p \in DOMAIN files :
    \E t \in Threads :
      /\ pc[t] \in RunStates
      /\ files[p].by = call[t].id
      /\ IsUnder(p, WsDir(call[t].ws))

====
